---- MODULE Spec2Model ----
(***************************************************************************)
(* A model of live-server: the static asset handler (server.rs), the       *)
(* websocket fan-out of reload signals (server.rs, watcher.rs) and the     *)
(* watch loop (watcher.rs).                                                *)
(*                                                                         *)
(* Paths are sequences of components.  A request URI path is the sequence  *)
(* of its segments: the URI is "/" followed by the segments joined by "/", *)
(* so <<"docs", "a.txt">> is "/docs/a.txt", <<>> is "/" and                *)
(* <<"", "srv">> is "//srv".                                               *)
(***************************************************************************)
EXTENDS Integers, Sequences, FiniteSets, TLC

VARIABLES
    watch,      \* the WATCH cell (lib.rs:33)
    addr,       \* the ADDR cell (lib.rs:34)
    req,        \* the last request path handled by static_assets
    resp,       \* the response static_assets gave to it
    watcher,    \* the task running watch(): "none", "running" or "panicked"
    conn,       \* per websocket connection: its handler, its tasks, its receiver
    lastSend,   \* the result of the last tx.send(()): "none", "ok" or "err"
    lastBatch,  \* the batch the watch loop handled last, when batches are recorded
    lastSignals, \* the number of broadcasts the watch loop made for that batch
    arg,        \* the arguments of the call that is followed, and what it meets
    ret,        \* what the call returned
    boot,       \* how far listen() and start() have come
    wire        \* per websocket connection: the messages on its socket

httpVars == <<watch, addr, req, resp>>

reloadVars == <<watcher, conn, lastSend, lastBatch, lastSignals>>

callVars == <<arg, ret, boot, wire>>

vars ==
    <<watch, addr, req, resp, watcher, conn, lastSend, lastBatch, lastSignals,
      arg, ret, boot, wire>>

-----------------------------------------------------------------------------
(* Bounds *)

\* the longest request path, in segments
MaxSegs == 2

\* the number of websocket connections open at the same time
MaxConns == 2

\* the number of reload signals a connection may be behind: broadcast while
\* it was subscribed and not yet written to its socket
MaxBacklog == 2

\* the longest batch of debounced events
MaxBatch == 2

\* the capacity of the broadcast channel
Capacity == 16

-----------------------------------------------------------------------------
(* The filesystem the server runs on.  The content of a file is named by   *)
(* the file's real path.                                                   *)

Root == <<"srv", "www">>

Dir == [kind |-> "dir", readable |-> TRUE, utf8 |-> TRUE]

File(readable, utf8) == [kind |-> "file", readable |-> readable, utf8 |-> utf8]

Fs ==
    (<<>> :> Dir)
    @@ (<<"srv">> :> Dir)
    @@ (<<"srv", "secret.txt">> :> File(TRUE, TRUE))
    @@ (<<"srv", "www">> :> Dir)
    @@ (<<"srv", "www", "index.html">> :> File(TRUE, TRUE))
    @@ (<<"srv", "www", "index.js">> :> File(TRUE, TRUE))
    @@ (<<"srv", "www", "priv">> :> Dir)
    @@ (<<"srv", "www", "priv", "index.html">> :> File(FALSE, TRUE))
    @@ (<<"srv", "www", "odd">> :> Dir)
    @@ (<<"srv", "www", "odd", "index.html">> :> Dir)
    @@ (<<"srv", "www", "docs">> :> Dir)
    @@ (<<"srv", "www", "docs", "a.txt">> :> File(TRUE, TRUE))
    @@ (<<"srv", "www", "blog">> :> Dir)
    @@ (<<"srv", "www", "blog", "index.html">> :> File(TRUE, FALSE))

Segments ==
    {"..", "", "index.html", "index.js", "priv", "odd", "docs", "a.txt", "blog",
     "404.html", "favicon.ico", "srv", "www", "secret.txt"}

Addrs == {"127.0.0.1:8000", "192.168.1.7:8001"}

RECURSIVE SeqsUpTo(_, _)
SeqsUpTo(S, n) ==
    IF n = 0 THEN {<<>>}
    ELSE LET shorter == SeqsUpTo(S, n - 1)
         IN shorter \cup {Append(s, x) : s \in shorter, x \in S}

RequestPaths == SeqsUpTo(Segments, MaxSegs)

-----------------------------------------------------------------------------
(* std::path, as static_assets uses it *)

\* Path::components: empty components (repeated or trailing separators) are
\* dropped, ".." is kept as it is written
RECURSIVE Components(_)
Components(segs) ==
    IF segs = <<>> THEN <<>>
    ELSE IF Head(segs) = "" THEN Components(Tail(segs))
    ELSE <<Head(segs)>> \o Components(Tail(segs))

\* the request path without its first character is absolute when it still
\* starts with a separator
IsAbsolute(segs) == Len(segs) >= 2 /\ Head(segs) = ""

\* root.join(path): an absolute path replaces the root
PathJoin(root, segs) ==
    IF IsAbsolute(segs) THEN Components(segs) ELSE root \o Components(segs)

\* Path::starts_with compares whole components, without resolving ".."
StartsWith(path, base) ==
    Len(path) >= Len(base) /\ SubSeq(path, 1, Len(base)) = base

-----------------------------------------------------------------------------
(* The operating system's view of a path *)

Parent(p) == IF p = <<>> THEN <<>> ELSE SubSeq(p, 1, Len(p) - 1)

Failed(err) == [ok |-> FALSE, err |-> err, path |-> <<>>]

\* path resolution: every component is looked up in the directory reached so
\* far, ".." moves to its parent
RECURSIVE Walk(_, _)
Walk(cur, comps) ==
    IF cur \notin DOMAIN Fs THEN Failed("NotFound")
    ELSE IF comps = <<>> THEN [ok |-> TRUE, err |-> "", path |-> cur]
    ELSE IF Fs[cur].kind # "dir" THEN Failed("NotADirectory")
    ELSE IF Head(comps) = ".." THEN Walk(Parent(cur), Tail(comps))
    ELSE Walk(Append(cur, Head(comps)), Tail(comps))

Resolve(path) == Walk(<<>>, path)

\* Path::is_dir
IsDir(path) == Resolve(path).ok /\ Fs[Resolve(path).path].kind = "dir"

\* tokio::fs::try_exists(..).unwrap_or(false)
TryExists(path) == Resolve(path).ok

\* fs::read
FsRead(path) ==
    LET r == Resolve(path)
    IN IF ~r.ok THEN r
       ELSE IF Fs[r.path].kind = "dir" THEN Failed("IsADirectory")
       ELSE IF ~Fs[r.path].readable THEN Failed("PermissionDenied")
       ELSE r

-----------------------------------------------------------------------------
(* Response bodies are sequences of chunks *)

Chunk(t, p, s) == [t |-> t, p |-> p, s |-> s]

\* the bytes of the file whose real path is p
FileBytes(p) == Chunk("bytes", p, "")

\* templates/websocket.html formatted with the advertised address
WebsocketHtml(a) == Chunk("script", <<>>, a)

\* templates/error.html formatted with the script and the error
ErrorHtml(script, err) ==
    <<Chunk("doctype", <<>>, "<!DOCTYPE html>"), script, Chunk("error", <<>>, err)>>

\* the text of an error
ErrText(err) == Chunk("text", <<>>, err)

\* the generated listing of the directory whose real path is p
ListingHtml(p) == Chunk("listing", p, "")

Response(status, ctype, body, access, path) ==
    [status |-> status, ctype |-> ctype, body |-> body,
     access |-> access, path |-> path]

NoResponse == Response(0, "", <<>>, "none", <<>>)

\* the extension of the last component
Extension(path) ==
    IF path = <<>> THEN ""
    ELSE LET name == path[Len(path)]
         IN CASE name \in {"index.html", "404.html"} -> "html"
              [] name = "index.js" -> "js"
              [] name = "favicon.ico" -> "ico"
              [] name \in {"a.txt", "secret.txt"} -> "txt"
              [] OTHER -> ""

\* mime_guess::from_path(..).first_or_text_plain()
MimeGuess(path) ==
    CASE Extension(path) = "html" -> "text/html"
      [] Extension(path) = "js" -> "application/javascript"
      [] Extension(path) = "ico" -> "image/x-icon"
      [] OTHER -> "text/plain"

internal_err(err) ==
    Response(500, "text/plain", <<ErrText(err)>>, "none", <<>>)

serve_directory_listing(path) ==
    LET r == Resolve(path)
    IN IF ~r.ok THEN internal_err(r.err)
       ELSE Response(200, "text/html; charset=utf-8", <<ListingHtml(r.path)>>,
                     "list", r.path)

StatusOf_Always500(err) == 500

\* the status for a failed read
StatusOf(err) == IF err = "NotFound" THEN 404 ELSE 500

ShouldInject_AnyHtml(mime, w) == mime = "text/html"

\* whether the reload fragment is appended to a file that was read
ShouldInject(mime, w) == mime = "text/html" /\ w

\* the file is read and the response is built from it
ServeFile(path, w, a) ==
    LET mime == MimeGuess(path)
        file == FsRead(path)
    IN IF ~file.ok
       THEN Response(StatusOf(file.err), mime,
                     IF mime = "text/html"
                     THEN ErrorHtml(WebsocketHtml(a), file.err)
                     ELSE <<>>,
                     "none", <<>>)
       ELSE IF ShouldInject(mime, w)
       THEN IF ~Fs[file.path].utf8
            THEN [internal_err("FromUtf8Error") EXCEPT
                      !.access = "read", !.path = file.path]
            ELSE Response(200, mime, <<FileBytes(file.path), WebsocketHtml(a)>>,
                          "read", file.path)
       ELSE Response(200, mime, <<FileBytes(file.path)>>, "read", file.path)

Target_NoIndex(path) == path

\* the path that is read: a directory's index.html when it has one
Target(path) == IF IsDir(path) THEN Append(path, "index.html") ELSE path

static_assets(segs, w, a) ==
    LET path == PathJoin(Root, segs)
    IN IF ~StartsWith(path, Root) THEN internal_err("PermissionDenied")
       ELSE IF IsDir(path) /\ ~TryExists(Append(path, "index.html"))
       THEN serve_directory_listing(path)
       ELSE ServeFile(Target(path), w, a)

-----------------------------------------------------------------------------
(* The HTTP server: one action per request *)

\* the request req is handled
HttpGet ==
    /\ resp = NoResponse
    /\ resp' = static_assets(req, watch, addr)
    /\ UNCHANGED <<watch, addr, req>>
    /\ UNCHANGED reloadVars
    /\ UNCHANGED callVars

NextHttp == HttpGet

-----------------------------------------------------------------------------
(* listing.rs: the formatting of a file size.  Text is a sequence of        *)
(* characters.  A byte count is written in base 1024, lowest digit first:   *)
(* <<512, 1>> is 512 + 1 * 1024 = 1536 and <<>> is 0.                        *)

\* const K: u32 = 1024, which is 2 ^ KBits
K == 1024

KBits == 10

\* the width of K's type
U32Bits == 32

UNITS == <<"B", "KB", "MB", "GB", "TB", "PB", "EB", "ZB", "YB">>

\* the largest u64
U64Max == <<1023, 1023, 1023, 1023, 1023, 1023, 15>>

\* the byte count top * K^exp + next * K^(exp - 1)
Size(exp, top, next) ==
    [i \in 1..(exp + 1) |->
        IF i = exp + 1 THEN top ELSE IF i = exp THEN next ELSE 0]

\* the value of a call that has not returned, that returned and that panicked
Pending == [state |-> "pending", text |-> <<>>]

Returned(text) == [state |-> "returned", text |-> text]

Panicked == [state |-> "panicked", text |-> <<>>]

Digit(n) == <<"0", "1", "2", "3", "4", "5", "6", "7", "8", "9">>[n + 1]

\* an integer in decimal
RECURSIVE Decimal(_)
Decimal(n) ==
    IF n < 10 THEN <<Digit(n)>> ELSE Append(Decimal(n \div 10), Digit(n % 10))

\* trim_end_matches(ch)
RECURSIVE TrimEnd(_, _)
TrimEnd(text, ch) ==
    IF text # <<>> /\ text[Len(text)] = ch
    THEN TrimEnd(SubSeq(text, 1, Len(text) - 1), ch)
    ELSE text

\* a positive f64: infinite, or num / K and a little more when sticky is set
Float(num, sticky) == [inf |-> FALSE, num |-> num, sticky |-> sticky]

Infinity == [inf |-> TRUE, num |-> 0, sticky |-> FALSE]

\* the value in hundredths, rounded to the nearest, a tie to the even one
Hundredths(value) ==
    LET q == (value.num * 100) \div K
        r == (value.num * 100) % K
        half == K \div 2
    IN IF r > half \/ (r = half /\ (value.sticky \/ q % 2 = 1))
       THEN q + 1 ELSE q

\* format!("{:.2}", value)
Fixed2(value) ==
    IF value.inf THEN <<"i", "n", "f">>
    ELSE LET h == Hundredths(value)
         IN Decimal(h \div 100) \o <<".">>
            \o <<Digit((h % 100) \div 10), Digit(h % 10)>>

format_float(value) == TrimEnd(TrimEnd(Fixed2(value), "0"), ".")

\* (bytes as f64).log(K as f64).floor(): the index of the top digit
LogK(bytes) == Len(bytes) - 1

\* whether K.pow(exp) overflows u32
PowOverflows(exp) == KBits * exp >= U32Bits

\* bytes as f64 / pow as f64, for pow = K^exp or for the wrapped power:
\* K^exp is a power of two, so it wraps to 0
Quotient(bytes, exp, wrapped) ==
    IF wrapped THEN Infinity
    ELSE Float(bytes[exp + 1] * K + (IF exp >= 1 THEN bytes[exp] ELSE 0),
               \E i \in 1..(exp - 1) : bytes[i] # 0)

\* format_file_size; K.pow panics on overflow in a build with overflow checks
\* and wraps in a build without
format_file_size(bytes, overflow_checks) ==
    IF bytes = <<>> THEN Returned(<<"0", " ", "B">>)
    ELSE LET exp == LogK(bytes)
         IN IF PowOverflows(exp) /\ overflow_checks THEN Panicked
            ELSE Returned(format_float(Quotient(bytes, exp, PowOverflows(exp)))
                          \o <<" ", UNITS[exp + 1]>>)

\* the byte counts format_file_size is called with
TopDigits == {1, 15, 1023}

NextDigits == {0, 128, 512, 1023}

ByteCounts ==
    {<<>>, U64Max}
    \cup {Size(0, top, 0) : top \in TopDigits}
    \cup {Size(exp, top, next) :
             exp \in 1..5, top \in TopDigits, next \in NextDigits}
    \cup {Size(6, top, next) : top \in {1, 15}, next \in NextDigits}

\* format_file_size(arg.bytes) is called
FormatFileSize ==
    /\ ret = Pending
    /\ ret' = format_file_size(arg.bytes, arg.overflow_checks)
    /\ UNCHANGED <<arg, boot, wire, httpVars, reloadVars>>

-----------------------------------------------------------------------------
(* listing.rs: the listing of a directory.  A name is a sequence of         *)
(* characters and a path is a sequence of names.                            *)

\* the most children a listed directory has
MaxEntries == 2

Names == {<<"a">>, <<"<", "s", ">">>, <<"b", "&", "c">>}

\* what a child is: a directory, a regular file, something else, or a
\* symbolic link to one of these or to nothing
NodeKinds == {"dir", "file", "fifo", "link-dir", "link-file", "link-broken"}

\* metadata.len(): 1536 bytes, 1024^4 bytes
Lens == {<<512, 1>>, <<0, 0, 0, 0, 1>>}

\* a child as next_entry() gives it; meta tells whether entry.metadata()
\* succeeds
DirEntry(name, kind, meta, len) ==
    [name |-> name, kind |-> kind, meta |-> meta, len |-> len]

DirEntries ==
    {DirEntry(n, k, TRUE, l) : n \in Names, k \in NodeKinds, l \in Lens}
    \cup {DirEntry(n, k, FALSE, <<>>) : n \in Names, k \in NodeKinds}

\* the children of a directory in the order read_dir enumerates them
DirContents ==
    {es \in SeqsUpTo(DirEntries, MaxEntries) :
        \A i, j \in 1..Len(es) : es[i].name = es[j].name => i = j}

\* the listed directories, relative to the root
ListedDirs == {<<>>, <<<<"<", "s", ">">>>>}

\* the build and what the request meets: in a debug build arithmetic is
\* checked and the built-in assets are read from disk (static_files.rs:7)
Conditions ==
    {[build |-> "release", readable |-> TRUE, assets |-> TRUE],
     [build |-> "release", readable |-> FALSE, assets |-> TRUE],
     [build |-> "debug", readable |-> TRUE, assets |-> TRUE],
     [build |-> "debug", readable |-> TRUE, assets |-> FALSE]}

RootText == <<"/", "srv", "/", "www">>

\* the components joined by separators
RECURSIVE JoinPath(_)
JoinPath(comps) ==
    IF comps = <<>> THEN <<>>
    ELSE IF Len(comps) = 1 THEN Head(comps)
    ELSE Head(comps) \o <<"/">> \o JoinPath(Tail(comps))

\* path_to_string_but_readable of the directory that is listed
DirString(dir) ==
    IF dir = <<>> THEN RootText ELSE RootText \o <<"/">> \o JoinPath(dir)

\* entry_to_path: the path relative to the root, after a separator
entry_to_path(dir, name) == <<"/">> \o JoinPath(Append(dir, name))

\* str::replace(ch, with)
RECURSIVE Replace(_, _, _)
Replace(text, ch, with) ==
    IF text = <<>> THEN <<>>
    ELSE (IF Head(text) = ch THEN with ELSE <<Head(text)>>)
         \o Replace(Tail(text), ch, with)

escape_html(input) ==
    Replace(Replace(Replace(input, "&", <<"&", "a", "m", "p", ";">>),
                    "<", <<"&", "l", "t", ";">>),
            ">", <<"&", "g", "t", ";">>)

get_entry_type(kind) ==
    CASE kind = "dir" -> "Dir"
      [] kind = "file" -> "File"
      [] kind = "link-dir" -> "DirLink"
      [] kind = "link-file" -> "FileLink"
      [] OTHER -> "Other"

\* EntryType::value
value(entry_type) ==
    CASE entry_type = "Dir" -> 0
      [] entry_type = "DirLink" -> 1
      [] entry_type = "File" -> 2
      [] entry_type = "FileLink" -> 3
      [] OTHER -> 4

RECURSIVE Reversed(_)
Reversed(entries) ==
    IF entries = <<>> THEN <<>>
    ELSE Append(Reversed(Tail(entries)), Head(entries))

SortByValue_Unstable(entries) ==
    LET OfValue(v) ==
            SelectSeq(Reversed(entries),
                      LAMBDA e : value(get_entry_type(e.kind)) = v)
    IN OfValue(0) \o OfValue(1) \o OfValue(2) \o OfValue(3) \o OfValue(4)

\* entries.sort_by(value): a stable sort
SortByValue(entries) ==
    LET OfValue(v) ==
            SelectSeq(entries, LAMBDA e : value(get_entry_type(e.kind)) = v)
    IN OfValue(0) \o OfValue(1) \o OfValue(2) \o OfValue(3) \o OfValue(4)

\* format_system_time: "%b %-e %Y %H:%M:%S"
ModifiedText == <<"Nov", " ", "4", " ", "2026", " ", "10:00:00">>

\* the size of a child is formatted unless it is a directory
FormatsSize(e) == e.meta /\ get_entry_type(e.kind) # "Dir"

\* entry.html rendered for one child
Row(dir, e, size) ==
    [icon |-> get_entry_type(e.kind),
     path |-> entry_to_path(dir, e.name),
     name |-> escape_html(e.name),
     size |-> escape_html(size),
     modified |-> escape_html(IF e.meta THEN ModifiedText ELSE <<>>)]

ListingResponse(state, status, label, rows) ==
    [state |-> state, status |-> status, label |-> label, rows |-> rows]

NotListed == ListingResponse("pending", 0, <<>>, <<>>)

ListingPanicked == ListingResponse("panicked", 0, <<>>, <<>>)

\* internal_err(e)
ListingErr == ListingResponse("returned", 500, <<>>, <<>>)

\* the for loop over the sorted entries: it ends the request when the size
\* cannot be formatted or entry.html cannot be read
RECURSIVE RenderRows(_, _, _, _)
RenderRows(dir, entries, cond, rows) ==
    IF entries = <<>> THEN ListingResponse("returned", 200, <<>>, rows)
    ELSE LET e == Head(entries)
             size == IF FormatsSize(e)
                     THEN format_file_size(e.len, cond.build = "debug")
                     ELSE Returned(<<>>)
         IN IF size.state = "panicked" THEN ListingPanicked
            ELSE IF ~cond.assets THEN ListingErr
            ELSE RenderRows(dir, Tail(entries), cond,
                            Append(rows, Row(dir, e, size.text)))

\* serve_directory_listing for the directory dir with the children entries
ListDirectory(dir, entries, cond) ==
    IF ~cond.readable THEN ListingErr
    ELSE LET rendered == RenderRows(dir, SortByValue(entries), cond, <<>>)
         IN IF rendered.status # 200 THEN rendered
            ELSE IF ~cond.assets THEN ListingErr
            ELSE [rendered EXCEPT !.label = escape_html(DirString(dir))]

\* a directory without index.html is requested
ServeListing ==
    /\ ret = NotListed
    /\ ret' = ListDirectory(arg.dir, arg.entries, arg.cond)
    /\ UNCHANGED <<arg, boot, wire, httpVars, reloadVars>>

-----------------------------------------------------------------------------
(* lib.rs: listen() and start() *)

\* the ports listen() is asked for and the ports other processes may hold
Ports == {8000, 8001}

BusyPorts == {8000, 8001, 8002}

\* what a start-up is given and meets: the port and watch are arguments of
\* listen(); busy are the ports in use, denied makes bind fail for another
\* reason, root_ok tells whether the root can be canonicalized, debouncer_ok
\* whether new_debouncer succeeds and watch_ok whether the root can be watched
StartUps ==
    [port : Ports, watch : BOOLEAN, busy : SUBSET BusyPorts, denied : BOOLEAN,
     root_ok : BOOLEAN, debouncer_ok : BOOLEAN, watch_ok : BOOLEAN]

\* the further calls of listen() a process may make
FurtherCalls ==
    {a \in StartUps : a.busy = {} /\ ~a.denied /\ a.root_ok
                      /\ a.debouncer_ok /\ a.watch_ok}

CellNames == {"WATCH", "ADDR", "ROOT", "TX"}

\* a OnceCell holds <<>> until it is set and <<v>> afterwards
Unset == [n \in CellNames |-> <<>>]

OnceSet_Overwrites(cells, name, v) ==
    [ok |-> TRUE, cells |-> [cells EXCEPT ![name] = <<v>>]]

\* OnceCell::set: an error, and no write, when the cell is set already
OnceSet(cells, name, v) ==
    IF cells[name] = <<>>
    THEN [ok |-> TRUE, cells |-> [cells EXCEPT ![name] = <<v>>]]
    ELSE [ok |-> FALSE, cells |-> cells]

\* pc is where the caller stands, err why listen() or start() returned Err,
\* port the port the listener is bound to (0: none), cells the OnceCells,
\* watcher the Listener's watcher field, server the task running serve(),
\* wtask the task running watch(), ran the handlers that have run and
\* panics the calls and handlers that panicked on a cell
BootState(pc, err, port, cells, w, server, wtask, ran, panics) ==
    [pc |-> pc, err |-> err, port |-> port, cells |-> cells, watcher |-> w,
     server |-> server, wtask |-> wtask, ran |-> ran, panics |-> panics]

NotBooted == BootState("main", "", 0, Unset, FALSE, "none", "none", {}, {})

\* the state once listen("127.0.0.1:8000", root, true) and start() have run
Started ==
    BootState("started", "", 8000,
              [n \in CellNames |->
                  CASE n = "WATCH" -> <<TRUE>>
                    [] n = "ADDR" -> <<8000>>
                    [] n = "ROOT" -> <<Root>>
                    [] OTHER -> <<Capacity>>],
              TRUE, "serving", "running", {}, {})

\* TcpListener::bind
Bind(port, busy, denied) ==
    IF port \in busy THEN "AddrInUse"
    ELSE IF denied THEN "PermissionDenied"
    ELSE "Ok"

\* create_listener: one bind; an error of any kind is returned;
\* ADDR.set(addr).unwrap() after a bind that succeeded
create_listener(b, a) ==
    LET bound == Bind(a.port, a.busy, a.denied)
        set == OnceSet(b.cells, "ADDR", a.port)
    IN IF bound # "Ok" THEN [b EXCEPT !.pc = "listen-err", !.err = bound]
       ELSE IF ~set.ok THEN [b EXCEPT !.panics = @ \cup {"listen"}]
       ELSE [b EXCEPT !.port = a.port, !.cells = set.cells]

\* listen(): WATCH.set(watch).unwrap() comes first; the listener is dropped
\* when a later step fails
listen(b, a) ==
    LET set == OnceSet(b.cells, "WATCH", a.watch)
        bound == create_listener([b EXCEPT !.cells = set.cells], a)
    IN IF ~set.ok THEN [b EXCEPT !.panics = @ \cup {"listen"}]
       ELSE IF bound.pc = "listen-err" \/ "listen" \in bound.panics THEN bound
       ELSE IF ~a.root_ok
       THEN [bound EXCEPT !.pc = "listen-err", !.err = "canonicalize", !.port = 0]
       ELSE IF a.watch /\ ~a.debouncer_ok
       THEN [bound EXCEPT !.pc = "listen-err", !.err = "create_watcher", !.port = 0]
       ELSE [bound EXCEPT !.pc = "listener", !.watcher = a.watch]

\* the caller calls listen()
Listen ==
    /\ boot.pc = "main"
    /\ boot' = listen(boot, arg)
    /\ UNCHANGED <<arg, ret, wire, httpVars, reloadVars>>

\* some task of the process calls listen() once more; ret keeps the
\* arguments of that call
ListenAgain ==
    /\ boot.pc \in {"listener", "listen-err", "spawned", "started"}
    /\ "listen" \notin boot.panics
    /\ \E a \in FurtherCalls :
          /\ boot' = listen(boot, a)
          /\ ret' = <<a>>
    /\ UNCHANGED <<arg, wire, httpVars, reloadVars>>

start_ServerFirst(b) == [b EXCEPT !.pc = "spawned", !.server = "serving"]

\* start() up to the spawn of the server task: ROOT.set(..)?, TX.set(tx)?
\* and tokio::spawn(server::serve(..))
start(b) ==
    LET root == OnceSet(b.cells, "ROOT", Root)
        tx == OnceSet(root.cells, "TX", Capacity)
    IN IF ~root.ok THEN [b EXCEPT !.pc = "start-err", !.err = "ROOT"]
       ELSE IF ~tx.ok
       THEN [b EXCEPT !.pc = "start-err", !.err = "TX", !.cells = root.cells]
       ELSE [b EXCEPT !.pc = "spawned", !.cells = tx.cells,
                      !.server = "serving"]

\* the caller calls start()
Start ==
    /\ boot.pc = "listener"
    /\ boot' = start(boot)
    /\ UNCHANGED <<arg, ret, wire, httpVars, reloadVars>>

\* start() spawns the watch task when there is a watcher and waits in
\* try_join!
SpawnWatcher ==
    /\ boot.pc = "spawned"
    /\ boot' = [boot EXCEPT !.pc = "started",
                            !.wtask = IF boot.watcher THEN "starting" ELSE "none"]
    /\ UNCHANGED <<arg, ret, wire, httpVars, reloadVars>>

\* watch() subscribes to the root: unwrap panics when that fails
WatchSubscribe ==
    /\ boot.wtask = "starting"
    /\ boot' = [boot EXCEPT !.wtask = IF arg.watch_ok THEN "running"
                                      ELSE "panicked"]
    /\ UNCHANGED <<arg, ret, wire, httpVars, reloadVars>>

\* try_join! returns the JoinError of the watch task and start() returns Err;
\* the handle of the server task is dropped, the task runs on
StartFails ==
    /\ boot.pc = "started"
    /\ boot.wtask = "panicked"
    /\ boot' = [boot EXCEPT !.pc = "start-err", !.err = "watch"]
    /\ UNCHANGED <<arg, ret, wire, httpVars, reloadVars>>

\* the caller returns the error of listen() or start() and the runtime
\* shuts down with it (lib.rs:8)
CallerExits ==
    /\ boot.pc \in {"listen-err", "start-err"}
    /\ boot' = [boot EXCEPT !.pc = "exited", !.port = 0,
                            !.server = IF @ = "serving" THEN "stopped" ELSE @]
    /\ UNCHANGED <<arg, ret, wire, httpVars, reloadVars>>

\* the cells a handler reads with get().unwrap()
CellsRead(handler) ==
    CASE handler = "static_assets" -> {"ADDR", "ROOT", "WATCH"}
      [] handler = "on_upgrade" -> {"TX"}
      [] OTHER -> {"TX"}

\* a handler runs: get() gives None for a cell that is not set, and unwrap
\* panics
RunHandler(b, handler) ==
    IF \E n \in CellsRead(handler) : b.cells[n] = <<>>
    THEN [b EXCEPT !.panics = @ \cup {handler}]
    ELSE [b EXCEPT !.ran = @ \cup {handler}]

\* the server answers a request with static_assets
ServeRequest ==
    /\ boot.server = "serving"
    /\ "static_assets" \notin boot.ran \cup boot.panics
    /\ boot' = RunHandler(boot, "static_assets")
    /\ UNCHANGED <<arg, ret, wire, httpVars, reloadVars>>

\* the server upgrades a connection to a websocket
UpgradeSocket ==
    /\ boot.server = "serving"
    /\ "on_upgrade" \notin boot.ran \cup boot.panics
    /\ boot' = RunHandler(boot, "on_upgrade")
    /\ UNCHANGED <<arg, ret, wire, httpVars, reloadVars>>

\* the watch loop calls broadcast()
BroadcastSignal ==
    /\ boot.wtask = "running"
    /\ "broadcast" \notin boot.ran \cup boot.panics
    /\ boot' = RunHandler(boot, "broadcast")
    /\ UNCHANGED <<arg, ret, wire, httpVars, reloadVars>>

-----------------------------------------------------------------------------
(* The debounced batches the watch loop receives *)

EventKinds ==
    {"Create", "ModifyData", "RenameBoth", "RenameFrom", "Remove", "Access"}

\* a debounced event: its kind, and whether its paths are valid UTF-8
Event(kind, utf8) == [kind |-> kind, utf8 |-> utf8]

Events ==
    {Event(k, TRUE) : k \in EventKinds}
    \cup {Event(k, FALSE) : k \in {"Create", "RenameBoth", "Access"}}

\* Ok(events) or Err(errors)
OkBatch(events) == [ok |-> TRUE, events |-> events]

ErrBatch == [ok |-> FALSE, events |-> <<>>]

Batches == {OkBatch(es) : es \in SeqsUpTo(Events, MaxBatch)} \cup {ErrBatch}

\* the batches of at most one event
SmallBatches == {b \in Batches : Len(b.events) <= 1}

\* the arms of the match that set files_changed
SetsFilesChanged(e) ==
    e.kind \in {"Create", "ModifyData", "RenameBoth", "Remove"}

\* the arms that unwrap the event's path: Create, Modify other than a rename
\* and Remove always do; a rename pair does inside the arguments of
\* log::debug!, which are evaluated only when debug logging is enabled
UnwrapsPath(e, dbg) ==
    \/ e.kind \in {"Create", "ModifyData", "Remove"}
    \/ e.kind = "RenameBoth" /\ dbg

\* the for loop over the events of one batch
RECURSIVE ScanEvents(_, _, _)
ScanEvents(events, dbg, files_changed) ==
    IF events = <<>> THEN [files_changed |-> files_changed, panicked |-> FALSE]
    ELSE IF UnwrapsPath(Head(events), dbg) /\ ~Head(events).utf8
    THEN [files_changed |-> files_changed, panicked |-> TRUE]
    ELSE ScanEvents(Tail(events), dbg,
                    files_changed \/ SetsFilesChanged(Head(events)))

\* one turn of the while loop, up to the test of files_changed
ScanBatch(b, dbg) ==
    IF b.ok THEN ScanEvents(b.events, dbg, FALSE)
    ELSE [files_changed |-> FALSE, panicked |-> FALSE]

-----------------------------------------------------------------------------
(* The websocket connections *)

Conns == 1..MaxConns

\* h, st and rt are where the handler, the send task and the receive task
\* stand and peer is the client's end of the socket; pending counts the
\* values the channel holds for the receiver rx; owed counts the signals
\* broadcast while the connection was subscribed less the messages written
\* to its socket.

\* a slot no connection uses
Fresh ==
    [h |-> "none", st |-> "none", rt |-> "none", peer |-> "none",
     pending |-> 0, owed |-> 0]

Opened_Retained ==
    [h |-> "open", st |-> "recv", rt |-> "next", peer |-> "up",
     pending |-> 1, owed |-> 0]

\* the connection after on_upgrade has split the socket, subscribed to TX
\* and spawned both tasks: a new receiver sees no value sent before it
Opened ==
    [h |-> "open", st |-> "recv", rt |-> "next", peer |-> "up",
     pending |-> 0, owed |-> 0]

\* the send task owns the receiver rx: the connection is subscribed from
\* tx.subscribe() until the task has ended
SubscribedIn(cn, c) == cn[c].st \in {"recv", "send", "cancelling"}

Subscribed(c) == SubscribedIn(conn, c)

TaskEnded(t) == t \in {"done", "panicked", "cancelled"}

\* the receiver has missed values: more than Capacity were sent since it
\* last received one
Lagged(r) == r.pending > Capacity

TxSend_FirstOnly(cn) ==
    [c \in DOMAIN cn |->
        IF SubscribedIn(cn, c)
        THEN [cn[c] EXCEPT
                 !.pending = IF c = 1 /\ @ <= Capacity THEN @ + 1 ELSE @,
                 !.owed = @ + 1]
        ELSE cn[c]]

TxSend_StalledBlocks(cn) ==
    [c \in DOMAIN cn |->
        IF SubscribedIn(cn, c)
        THEN [cn[c] EXCEPT
                 !.pending = IF \E d \in DOMAIN cn : cn[d].st = "send" THEN @
                             ELSE IF @ > Capacity THEN @ ELSE @ + 1,
                 !.owed = @ + 1]
        ELSE cn[c]]

\* tx.send(()): every receiver gets the value; a receiver that already holds
\* Capacity values loses the oldest one
TxSend(cn) ==
    [c \in DOMAIN cn |->
        IF SubscribedIn(cn, c)
        THEN [cn[c] EXCEPT
                 !.pending = IF @ > Capacity THEN @ ELSE @ + 1,
                 !.owed = @ + 1]
        ELSE cn[c]]

\* tx.send(()) fails when there is no receiver, and the value is dropped
TxSendResult(cn) ==
    IF \E c \in DOMAIN cn : SubscribedIn(cn, c) THEN "ok" ELSE "err"

\* broadcast() (watcher.rs:17): the result of send is ignored
Broadcast ==
    /\ conn' = TxSend(conn)
    /\ lastSend' = TxSendResult(conn)

\* on_upgrade, up to the select!
Upgrade(c) ==
    /\ conn[c].h = "none"
    /\ conn' = [conn EXCEPT ![c] = Opened]
    /\ UNCHANGED <<watcher, lastSend, lastBatch, lastSignals>>

\* the send task after rx.recv() returned Ok: it starts sender.send
RecvOk(r) == [r EXCEPT !.pending = @ - 1, !.st = "send"]

\* the send task after rx.recv() returned Err(Lagged): is_ok() is false, the
\* loop and the task end, rx is dropped
RecvLagged(r) == [r EXCEPT !.pending = 0, !.st = "done"]

\* rx.recv().await returns
SendTaskRecv(c) ==
    /\ conn[c].st = "recv"
    /\ conn[c].pending > 0
    /\ conn' = [conn EXCEPT ![c] =
                   IF Lagged(conn[c]) THEN RecvLagged(@) ELSE RecvOk(@)]
    /\ UNCHANGED <<watcher, lastSend, lastBatch, lastSignals>>

\* sender.send(..).await returns Ok: the loop goes back to rx.recv()
SocketSendOk(c) ==
    /\ conn[c].st = "send"
    /\ conn' = [conn EXCEPT ![c].owed = @ - 1, ![c].st = "recv"]
    /\ UNCHANGED <<watcher, lastSend, lastBatch, lastSignals>>

SendFailed_Poisons(cn, c) ==
    [d \in DOMAIN cn |->
        IF SubscribedIn(cn, d)
        THEN [cn[d] EXCEPT !.st = "panicked", !.pending = 0]
        ELSE cn[d]]

\* the connections after sender.send(..).await returned Err to c's send
\* task: unwrap panics, the task ends and rx is dropped
SendFailed(cn, c) == [cn EXCEPT ![c].st = "panicked", ![c].pending = 0]

SocketSendErr(c) ==
    /\ conn[c].st = "send"
    /\ conn' = SendFailed(conn, c)
    /\ UNCHANGED <<watcher, lastSend, lastBatch, lastSignals>>

\* the client closes the connection, or the connection breaks
ClientDisconnect(c) ==
    /\ conn[c].h = "open"
    /\ conn[c].peer = "up"
    /\ conn' = [conn EXCEPT ![c].peer = "down"]
    /\ UNCHANGED <<watcher, lastSend, lastBatch, lastSignals>>

\* receiver.next().await returns None or Some(Err): the receive task ends
RecvTaskEnd(c) ==
    /\ conn[c].rt = "next"
    /\ conn[c].peer = "down"
    /\ conn' = [conn EXCEPT ![c].rt = "done"]
    /\ UNCHANGED <<watcher, lastSend, lastBatch, lastSignals>>

\* JoinHandle::abort: a task that has not ended is cancelled
Abort(t) == IF TaskEnded(t) THEN t ELSE "cancelling"

\* once the handler has returned and both tasks have ended nothing of the
\* connection is left
Reap(r) ==
    IF r.h = "closed" /\ TaskEnded(r.st) /\ TaskEnded(r.rt) THEN Fresh ELSE r

\* the select! branch taken when the send task has ended
SelectSend(r) == Reap([r EXCEPT !.h = "closed", !.rt = Abort(@)])

SelectRecv_NoAbort(r) == Reap([r EXCEPT !.h = "closed"])

\* the select! branch taken when the receive task has ended
SelectRecv(r) == Reap([r EXCEPT !.h = "closed", !.st = Abort(@)])

\* the select! completes with the task that ended first
SelectDone(c) ==
    /\ conn[c].h = "open"
    /\ \/ /\ TaskEnded(conn[c].st)
          /\ conn' = [conn EXCEPT ![c] = SelectSend(@)]
       \/ /\ TaskEnded(conn[c].rt)
          /\ conn' = [conn EXCEPT ![c] = SelectRecv(@)]
    /\ UNCHANGED <<watcher, lastSend, lastBatch, lastSignals>>

\* the runtime drops an aborted send task, and rx with it
SendTaskCancelled(c) ==
    /\ conn[c].st = "cancelling"
    /\ conn' = [conn EXCEPT ![c] =
                   Reap([@ EXCEPT !.st = "cancelled", !.pending = 0])]
    /\ UNCHANGED <<watcher, lastSend, lastBatch, lastSignals>>

\* the runtime drops an aborted receive task
RecvTaskCancelled(c) ==
    /\ conn[c].rt = "cancelling"
    /\ conn' = [conn EXCEPT ![c] = Reap([@ EXCEPT !.rt = "cancelled"])]
    /\ UNCHANGED <<watcher, lastSend, lastBatch, lastSignals>>

-----------------------------------------------------------------------------
(* The messages on the sockets *)

\* the most reload signals a connection receives while its messages are
\* followed
MaxSignals == 2

\* the most inbound messages waiting to be read on a socket
MaxInbound == 1

\* the connections whose messages are followed, and the one whose client
\* sends messages
WsConns == {1, 2}

Talkers == {1}

\* Message::Text(String::new())
ReloadMessage == [type |-> "Text", payload |-> <<>>]

\* inbox counts the client's messages the receive task has not read, heard
\* tells whether it has read one, got counts the signals rx.recv() returned
\* to the send task, put the messages it wrote, and out holds the messages
\* written
NoTraffic == [inbox |-> 0, heard |-> FALSE, got |-> 0, put |-> 0, out |-> {}]

\* the socket of c after a step of its handler or of one of its tasks
WireAfter(c) ==
    IF conn'[c].h = "none" THEN NoTraffic
    ELSE IF conn[c].h = "none" THEN NoTraffic
    ELSE IF conn[c].st = "recv" /\ conn'[c].st = "send"
    THEN [wire[c] EXCEPT !.got = @ + 1]
    ELSE IF conn[c].st = "send" /\ conn'[c].st = "recv"
    THEN [wire[c] EXCEPT !.put = @ + 1, !.out = @ \cup {ReloadMessage}]
    ELSE wire[c]

\* the client sends a message of any kind
ClientMessage(c) ==
    /\ conn[c].h = "open"
    /\ conn[c].peer = "up"
    /\ wire[c].inbox < MaxInbound
    /\ wire' = [wire EXCEPT ![c].inbox = @ + 1]
    /\ UNCHANGED <<arg, ret, boot, httpVars, reloadVars>>

RecvTaskNext_EndsTask(cn, c) == [cn EXCEPT ![c].rt = "done"]

\* the connections after receiver.next().await returned Some(Ok(_)) to c's
\* receive task: the message is dropped and the loop goes on
RecvTaskNext(cn, c) == cn

\* receiver.next().await returns a message
RecvTaskRead(c) ==
    /\ conn[c].rt = "next"
    /\ wire[c].inbox > 0
    /\ wire' = [wire EXCEPT ![c].inbox = @ - 1, ![c].heard = TRUE]
    /\ conn' = RecvTaskNext(conn, c)
    /\ UNCHANGED <<watcher, lastSend, lastBatch, lastSignals>>
    /\ UNCHANGED <<arg, ret, boot, httpVars>>

\* a step of connection c, the messages on its socket followed
WsStep(c) ==
    /\ \/ Upgrade(c)
       \/ SendTaskRecv(c) /\ wire[c].got < MaxSignals
       \/ SocketSendOk(c)
       \/ SocketSendErr(c)
       \/ ClientDisconnect(c)
       \/ RecvTaskEnd(c)
       \/ SelectDone(c)
       \/ SendTaskCancelled(c)
       \/ RecvTaskCancelled(c)
    /\ wire' = [wire EXCEPT ![c] = WireAfter(c)]
    /\ UNCHANGED <<arg, ret, boot, httpVars>>

-----------------------------------------------------------------------------
(* The watch loop *)

\* the connections that may fall behind by more than the channel holds
SlowConns == {1}

\* the connections of the specification with a slow connection
LagConns == {1, 2}

\* how far connection c may fall behind
Backlog(c, slow) == IF c \in slow THEN Capacity + MaxBacklog ELSE MaxBacklog

\* one more broadcast leaves every subscribed connection within its backlog
CanBroadcast(slow) ==
    \A c \in Conns : Subscribed(c) => conn[c].owed < Backlog(c, slow)

\* one turn of the while loop of watch(): the batch b is received and
\* scanned, and broadcast() is called when files_changed is set
WatchBatch(b, dbg, slow, record) ==
    /\ watcher = "running"
    /\ CanBroadcast(slow)
    /\ LET scan == ScanBatch(b, dbg)
       IN /\ watcher' = IF scan.panicked THEN "panicked" ELSE "running"
          /\ IF scan.files_changed /\ ~scan.panicked
             THEN Broadcast
             ELSE UNCHANGED <<conn, lastSend>>
          /\ lastBatch' = IF record THEN <<b>> ELSE <<>>
          /\ lastSignals' =
                IF record /\ scan.files_changed /\ ~scan.panicked THEN 1 ELSE 0

ConnStep(c) ==
    \/ Upgrade(c)
    \/ SendTaskRecv(c)
    \/ SocketSendOk(c)
    \/ SocketSendErr(c)
    \/ ClientDisconnect(c)
    \/ RecvTaskEnd(c)
    \/ SelectDone(c)
    \/ SendTaskCancelled(c)
    \/ RecvTaskCancelled(c)

-----------------------------------------------------------------------------
(* Specifications *)

\* the state once listen(addr, root, true) and start() have run
Init ==
    /\ watch = TRUE
    /\ addr = "127.0.0.1:8000"
    /\ req = <<>>
    /\ resp = NoResponse
    /\ watcher = "running"
    /\ conn = [c \in Conns |-> Fresh]
    /\ lastSend = "none"
    /\ lastBatch = <<>>
    /\ lastSignals = 0
    /\ arg = <<>>
    /\ ret = <<>>
    /\ boot = Started
    /\ wire = [c \in Conns |-> NoTraffic]

\* a request arrives, under either watch mode and either advertised address
InitHttp ==
    /\ watch \in BOOLEAN
    /\ addr \in Addrs
    /\ req \in RequestPaths
    /\ resp = NoResponse
    /\ watcher = IF watch THEN "running" ELSE "none"
    /\ conn = [c \in Conns |-> Fresh]
    /\ lastSend = "none"
    /\ lastBatch = <<>>
    /\ lastSignals = 0
    /\ arg = <<>>
    /\ ret = <<>>
    /\ boot = Started
    /\ wire = [c \in Conns |-> NoTraffic]

\* the reload system: connections come and go while batches arrive
Next ==
    \/ \E c \in Conns : ConnStep(c) /\ UNCHANGED <<httpVars, callVars>>
    \/ \E b \in SmallBatches, dbg \in BOOLEAN :
          WatchBatch(b, dbg, {}, FALSE) /\ UNCHANGED <<httpVars, callVars>>

Spec == Init /\ [][Next]_vars

\* the HTTP server alone
SpecHttp == InitHttp /\ [][NextHttp]_vars

\* the watch loop alone, every batch recorded
NextWatch ==
    \E b \in Batches, dbg \in BOOLEAN :
        WatchBatch(b, dbg, {}, TRUE) /\ UNCHANGED <<httpVars, callVars>>

SpecWatch == Init /\ [][NextWatch]_vars

\* two connections, one of which may fall behind until the channel overruns
NextLag ==
    \/ \E c \in LagConns : ConnStep(c) /\ UNCHANGED <<httpVars, callVars>>
    \/ \E b \in SmallBatches, dbg \in BOOLEAN :
          WatchBatch(b, dbg, SlowConns, FALSE) /\ UNCHANGED <<httpVars, callVars>>

SpecLag == Init /\ [][NextLag]_vars

\* a file size is formatted, in a build with or without overflow checks
InitSize ==
    /\ Init!1 /\ Init!2 /\ Init!3 /\ Init!4 /\ Init!5
    /\ Init!6 /\ Init!7 /\ Init!8 /\ Init!9 /\ Init!12 /\ Init!13
    /\ arg \in [bytes : ByteCounts, overflow_checks : BOOLEAN]
    /\ ret = Pending

NextSize == FormatFileSize

SpecSize == InitSize /\ [][NextSize]_vars

\* a directory without index.html is requested, in either build
InitListing ==
    /\ Init!1 /\ Init!2 /\ Init!3 /\ Init!4 /\ Init!5
    /\ Init!6 /\ Init!7 /\ Init!8 /\ Init!9 /\ Init!12 /\ Init!13
    /\ arg \in [dir : ListedDirs, entries : DirContents, cond : Conditions]
    /\ ret = NotListed

NextListing == ServeListing

SpecListing == InitListing /\ [][NextListing]_vars

\* the server is started
InitBoot ==
    /\ Init!1 /\ Init!2 /\ Init!3 /\ Init!4 /\ Init!5
    /\ Init!6 /\ Init!7 /\ Init!8 /\ Init!9 /\ Init!11 /\ Init!13
    /\ arg \in StartUps
    /\ boot = NotBooted

NextBoot ==
    \/ Listen
    \/ ListenAgain
    \/ Start
    \/ SpawnWatcher
    \/ WatchSubscribe
    \/ StartFails
    \/ CallerExits
    \/ ServeRequest
    \/ UpgradeSocket
    \/ BroadcastSignal

SpecBoot == InitBoot /\ [][NextBoot]_vars

\* the reload system with the messages on the sockets
NextWs ==
    \/ \E c \in WsConns : WsStep(c)
    \/ \E c \in Talkers : ClientMessage(c)
    \/ \E c \in Talkers : RecvTaskRead(c)
    \/ \E b \in SmallBatches, dbg \in BOOLEAN :
          WatchBatch(b, dbg, {}, FALSE) /\ UNCHANGED <<httpVars, callVars>>

SpecWs == Init /\ [][NextWs]_vars

\* the runtime runs every task that can run, and a closed connection is
\* noticed by the task reading from it
Fairness ==
    \A c \in Conns :
        /\ WF_vars(RecvTaskEnd(c) /\ UNCHANGED <<httpVars, callVars>>)
        /\ WF_vars(SelectDone(c) /\ UNCHANGED <<httpVars, callVars>>)
        /\ WF_vars(SendTaskCancelled(c) /\ UNCHANGED <<httpVars, callVars>>)
        /\ WF_vars(RecvTaskCancelled(c) /\ UNCHANGED <<httpVars, callVars>>)

SpecFair == Init /\ [][Next]_vars /\ Fairness

-----------------------------------------------------------------------------
(* Claims about static_assets *)

\* the path static_assets builds for the last request
ReqPath == PathJoin(Root, req)

\* the last request passed the prefix test and was not answered by a listing
ReqReadsFile ==
    /\ resp # NoResponse
    /\ StartsWith(ReqPath, Root)
    /\ ~(IsDir(ReqPath) /\ ~Resolve(Append(ReqPath, "index.html")).ok)

\* the path the last request makes static_assets read
ReqTarget ==
    IF IsDir(ReqPath) THEN Append(ReqPath, "index.html") ELSE ReqPath

\* the file system node the target names, when it names one
ReqNode == Fs[Resolve(ReqTarget).path]

ReqReadOk ==
    /\ ReqReadsFile
    /\ Resolve(ReqTarget).ok
    /\ ReqNode.kind = "file"
    /\ ReqNode.readable

HasScript(body) == \E i \in 1..Len(body) : body[i].t = "script"

\* C1: every file or directory static_assets reads or lists lies under the
\* served root, also for request paths with ".." segments and for request
\* paths that are absolute once the leading separator is stripped.
C1_ServedUnderRoot ==
    resp.access \in {"read", "list"} => StartsWith(resp.path, Root)

\* C8 as stated: a request for a directory that contains index.html returns
\* 200 with exactly the bytes of that index.html, followed by the reload
\* fragment iff watch mode is enabled and the content type is HTML.
C8_IndexAlways200 ==
    (ReqReadsFile /\ IsDir(ReqPath)) =>
        /\ resp.status = 200
        /\ Resolve(ReqTarget).ok
        /\ resp.body =
             <<FileBytes(Resolve(ReqTarget).path)>>
             \o (IF watch /\ resp.ctype = "text/html"
                 THEN <<WebsocketHtml(addr)>> ELSE <<>>)

\* C8 amended: a request for a directory that contains index.html returns,
\* when index.html is a readable file (and is valid UTF-8 if watch mode is
\* enabled), 200 and text/html with exactly its bytes, followed by the reload
\* fragment carrying the advertised address iff watch mode is enabled; when
\* index.html cannot be read the status is 404 or 500, and when watch mode is
\* enabled and index.html is not valid UTF-8 the status is 500.
C8_IndexServed ==
    (ReqReadsFile /\ IsDir(ReqPath)) =>
        IF ReqReadOk /\ (watch => ReqNode.utf8)
        THEN /\ resp.status = 200
             /\ resp.ctype = "text/html"
             /\ resp.body =
                  <<FileBytes(Resolve(ReqTarget).path)>>
                  \o (IF watch THEN <<WebsocketHtml(addr)>> ELSE <<>>)
        ELSE /\ resp.status \in {404, 500}
             /\ ~ReqReadOk \/ resp.status = 500
             /\ \A i \in 1..Len(resp.body) : resp.body[i].t # "bytes"

C8_Witness ==
    /\ req = <<>>
    /\ watch
    /\ resp.status = 200
    /\ resp.body = <<FileBytes(<<"srv", "www", "index.html">>),
                     WebsocketHtml(addr)>>

\* C9: for every successfully read file the reload fragment is in the body
\* only when the guessed MIME type is HTML and watch mode is enabled; for a
\* non-HTML file, or with watch mode disabled, the response is 200 with the
\* guessed content type and exactly the file's bytes.
C9_InjectOnlyHtmlWatch ==
    ReqReadOk =>
        /\ HasScript(resp.body) => (MimeGuess(ReqTarget) = "text/html" /\ watch)
        /\ ~(MimeGuess(ReqTarget) = "text/html" /\ watch) =>
              /\ resp.status = 200
              /\ resp.ctype = MimeGuess(ReqTarget)
              /\ resp.body = <<FileBytes(Resolve(ReqTarget).path)>>

C9_Witness ==
    /\ ReqReadOk
    /\ watch
    /\ req = <<"index.js">>
    /\ resp.ctype = "application/javascript"
    /\ resp.body = <<FileBytes(<<"srv", "www", "index.js">>)>>

\* C10: when reading the target file fails the status is 404 for a missing
\* file and 500 for any other failure, the content type is the MIME type
\* guessed from the path, and the body is an error page that starts with a
\* doctype declaration for HTML and is empty for every other type.
C10_ReadFailure ==
    (ReqReadsFile /\ ~ReqReadOk) =>
        /\ resp.status = IF Resolve(ReqTarget).ok THEN 500
                         ELSE IF Resolve(ReqTarget).err = "NotFound" THEN 404
                         ELSE 500
        /\ resp.ctype = MimeGuess(ReqTarget)
        /\ IF MimeGuess(ReqTarget) = "text/html"
           THEN resp.body # <<>> /\ resp.body[1].t = "doctype"
           ELSE resp.body = <<>>

C10_Witness ==
    /\ ReqReadsFile /\ ~ReqReadOk
    /\ req = <<"favicon.ico">>
    /\ resp.status = 404
    /\ resp.ctype = "image/x-icon"
    /\ resp.body = <<>>

\* C11: the HTML error page returned for a failed read contains the reload
\* fragment when watch mode is enabled and does not contain it when watch
\* mode is disabled.
C11_ErrorScriptIffWatch ==
    (ReqReadsFile /\ ~ReqReadOk /\ MimeGuess(ReqTarget) = "text/html") =>
        (HasScript(resp.body) <=> watch)

-----------------------------------------------------------------------------
(* Claims about listing.rs *)

\* the unit and the magnitude format_file_size is to give: the largest unit
\* not above the byte count, and the count in that unit to two decimals
ExpectedSize(bytes) ==
    IF bytes = <<>> THEN <<"0", " ", "B">>
    ELSE format_float(Quotient(bytes, Len(bytes) - 1, FALSE))
         \o <<" ", UNITS[Len(bytes)]>>

\* C14: format_file_size returns, for every byte count from 0 to the largest
\* u64, the count in the largest 1024-based unit not above it, to at most two
\* decimals with trailing zeros trimmed; 0 gives "0 B", 1024 "1 KB" and 1536
\* "1.5 KB"; it never fails, also for 1024^4 bytes and more.
C14_SizeFormatted ==
    ret # Pending =>
        /\ ret.state = "returned"
        /\ ret.text = ExpectedSize(arg.bytes)
        /\ arg.bytes = <<>> => ret.text = <<"0", " ", "B">>
        /\ arg.bytes = <<0, 1>> => ret.text = <<"1", " ", "KB">>
        /\ arg.bytes = <<512, 1>> => ret.text = <<"1", ".", "5", " ", "KB">>

\* C14 below 1024^4 bytes
C14_SizeFormattedBelowTB ==
    (ret # Pending /\ Len(arg.bytes) <= 4) => C14_SizeFormatted

\* the rows are in the order of the kind ranks
RankOrdered(rows) ==
    \A i, j \in 1..Len(rows) : i < j => value(rows[i].icon) <= value(rows[j].icon)

\* every child has exactly one row, and a row is the row of a child
OneRowPerChild(dir, entries, rows) ==
    /\ Len(rows) = Len(entries)
    /\ \A i \in 1..Len(entries) :
          Cardinality({j \in 1..Len(rows) :
                          /\ rows[j].path = entry_to_path(dir, entries[i].name)
                          /\ rows[j].icon = get_entry_type(entries[i].kind)}) = 1

\* C12: a request for a directory without index.html returns a listing with
\* exactly one row per direct child, the rows ordered by kind rank
\* Directory < DirectorySymlink < File < FileSymlink < Other.
C12_OneRowPerChildRanked ==
    ret # NotListed =>
        /\ ret.state = "returned"
        /\ ret.status = 200
        /\ OneRowPerChild(arg.dir, arg.entries, ret.rows)
        /\ RankOrdered(ret.rows)

\* what C12 says, of the listings that are returned
C12_ReturnedListings ==
    (ret # NotListed /\ ret.status = 200) =>
        /\ OneRowPerChild(arg.dir, arg.entries, ret.rows)
        /\ RankOrdered(ret.rows)

\* the index of the row of the child named name
RowOf(dir, name, rows) ==
    CHOOSE j \in 1..Len(rows) : rows[j].path = entry_to_path(dir, name)

\* C21: in a listing, children of equal kind rank appear in the order in
\* which the directory enumeration returned them.
C21_StableWithinRank ==
    (ret # NotListed /\ ret.status = 200) =>
        /\ Len(ret.rows) = Len(arg.entries)
        /\ \A i, j \in 1..Len(arg.entries) :
              (i < j /\ value(get_entry_type(arg.entries[i].kind))
                          = value(get_entry_type(arg.entries[j].kind))) =>
                  RowOf(arg.dir, arg.entries[i].name, ret.rows)
                      < RowOf(arg.dir, arg.entries[j].name, ret.rows)

\* two files are listed in the order of enumeration, which is not the order
\* of their names
C21_Witness ==
    /\ ret # NotListed
    /\ ret.status = 200
    /\ Len(arg.entries) = 2
    /\ arg.entries[1].name = <<"b", "&", "c">>
    /\ arg.entries[2].name = <<"a">>
    /\ arg.entries[1].kind = "file" /\ arg.entries[2].kind = "file"
    /\ ret.rows[1].path = entry_to_path(arg.dir, <<"b", "&", "c">>)
    /\ ret.rows[2].path = entry_to_path(arg.dir, <<"a">>)

\* a text with no character of markup outside an entity
NoMarkup(text) ==
    \A i \in 1..Len(text) :
        /\ text[i] \notin {"<", ">"}
        /\ text[i] = "&" =>
              /\ i + 3 <= Len(text)
              /\ \/ SubSeq(text, i + 1, i + 3) = <<"l", "t", ";">>
                 \/ SubSeq(text, i + 1, i + 3) = <<"g", "t", ";">>
                 \/ /\ i + 4 <= Len(text)
                    /\ SubSeq(text, i + 1, i + 4) = <<"a", "m", "p", ";">>

\* C13: in a listing every text derived from a file name is HTML-escaped:
\* the directory label and the name, the path, the size and the time of every
\* row hold no "&", "<" or ">" of a name as markup.
C13_NamesEscaped ==
    (ret # NotListed /\ ret.status = 200) =>
        /\ ret.label = escape_html(DirString(arg.dir))
        /\ \A i \in 1..Len(ret.rows) :
              /\ NoMarkup(ret.rows[i].name)
              /\ NoMarkup(ret.rows[i].path)
              /\ NoMarkup(ret.rows[i].size)
              /\ NoMarkup(ret.rows[i].modified)

\* C13 without the path of a row
C13_EscapedButPath ==
    (ret # NotListed /\ ret.status = 200) =>
        /\ ret.label = escape_html(DirString(arg.dir))
        /\ NoMarkup(ret.label)
        /\ \A i \in 1..Len(ret.rows) :
              /\ \E j \in 1..Len(arg.entries) :
                    ret.rows[i].name = escape_html(arg.entries[j].name)
              /\ NoMarkup(ret.rows[i].name)
              /\ NoMarkup(ret.rows[i].size)
              /\ NoMarkup(ret.rows[i].modified)

\* C18: every request that reaches a handler completes with a response of
\* status 200, 404 or 500; no handler panics.
C18_AlwaysResponds ==
    /\ resp # NoResponse => resp.status \in {200, 404, 500}
    /\ ret # NotListed =>
          /\ ret.state = "returned"
          /\ ret.status \in {200, 404, 500}

-----------------------------------------------------------------------------
(* Claims about start-up *)

\* a port above the requested one is free
FreePortAbove == \E p \in BusyPorts : p > arg.port /\ p \notin arg.busy

\* C15: when binding the requested address fails with address-in-use the
\* port is incremented and binding is tried again until a bind succeeds:
\* start-up never fails with address-in-use while a higher port is free, and
\* the listener is bound to the lowest free port from the requested one up;
\* any other bind failure aborts start-up with an error.
C15_RetriesOnConflict ==
    /\ (boot.err = "AddrInUse") => ~FreePortAbove
    /\ (boot.pc \in {"listener", "started"} /\ ~arg.denied) =>
          /\ boot.port >= arg.port
          /\ boot.port \notin arg.busy
          /\ \A p \in arg.port..(boot.port - 1) : p \in arg.busy
    /\ (boot.pc # "main" /\ arg.denied /\ arg.port \notin arg.busy) =>
          boot.err = "PermissionDenied"

\* the watcher of this start-up cannot be started
WatcherFails == arg.watch /\ (~arg.debouncer_ok \/ ~arg.watch_ok)

\* C16: when the watcher fails to start only the watch subsystem is lost:
\* neither listen() nor start() returns an error because of it, the server is
\* started and it keeps serving.
C16_ServerSurvivesWatcher ==
    WatcherFails =>
        /\ boot.err \notin {"create_watcher", "watch"}
        /\ boot.wtask = "panicked" => boot.server = "serving"
        /\ (boot.pc = "exited" /\ arg.root_ok /\ Bind(arg.port, arg.busy, arg.denied) = "Ok")
              => boot.server = "serving"

\* C23: the watch flag, the advertised address, the root and the broadcast
\* sender are each written once at most: a cell that is set keeps its value
\* in every step, the values are those of the first listen() and start(),
\* and a further call of listen() does not overwrite them.
C23_WriteOnce ==
    /\ [][\A n \in CellNames :
            boot.cells[n] # <<>> => boot'.cells[n] = boot.cells[n]]_vars
    /\ [](/\ boot.cells["WATCH"] \in {<<>>, <<arg.watch>>}
          /\ boot.cells["ADDR"] \in {<<>>, <<arg.port>>}
          /\ boot.cells["ROOT"] \in {<<>>, <<Root>>}
          /\ boot.cells["TX"] \in {<<>>, <<Capacity>>})

\* listen() was called again with another port and another watch flag while
\* the server runs
C23_Witness ==
    /\ boot.pc = "started"
    /\ ret # <<>>
    /\ ret[1].watch # arg.watch
    /\ ret[1].port # arg.port
    /\ "listen" \in boot.panics
    /\ boot.cells["WATCH"] = <<arg.watch>>
    /\ boot.cells["ADDR"] = <<arg.port>>
    /\ boot.cells["TX"] = <<Capacity>>

Handlers == {"static_assets", "on_upgrade", "broadcast"}

\* C24: no request handler, websocket handler or broadcast runs before the
\* cells it reads are set: none of them panics on get().unwrap(), the server
\* task exists only once ADDR, ROOT, WATCH and TX are set, and the watch
\* task only once TX is set.
C24_InitBeforeUse ==
    /\ boot.panics \cap Handlers = {}
    /\ \A h \in boot.ran : \A n \in CellsRead(h) : boot.cells[n] # <<>>
    /\ boot.server # "none" => \A n \in CellNames : boot.cells[n] # <<>>
    /\ boot.wtask # "none" => boot.cells["TX"] # <<>>

C24_Witness ==
    /\ boot.ran = Handlers
    /\ boot.pc = "started"
    /\ boot.panics = {}

-----------------------------------------------------------------------------
(* Claims about the reload signal *)

\* the connection is open and its send task holds the subscription
Registered(c) == conn[c].h = "open" /\ conn[c].st \in {"recv", "send"}

\* the message the send task is writing to the socket
InFlight(c) == IF conn[c].st = "send" THEN 1 ELSE 0

\* a burst of changes: one event or more, each a create, a modify, a remove
\* or a rename reported as a pair
ChangeBurst(b) ==
    /\ b.ok
    /\ b.events # <<>>
    /\ \A i \in 1..Len(b.events) :
          b.events[i].kind \in {"Create", "ModifyData", "Remove", "RenameBoth"}

\* C2: a burst of create, modify, remove and rename events, however many,
\* makes the watch loop broadcast exactly one reload signal.
C2_BurstOneSignal ==
    (lastBatch # <<>> /\ ChangeBurst(lastBatch[1])) => lastSignals = 1

\* C3 as stated: every signal broadcast while a connection is registered
\* reaches it exactly once: it is waiting in the connection's receiver, is
\* being written to its socket, or was written to it.
C3_ExactlyOnce ==
    \A c \in Conns :
        Registered(c) => conn[c].owed = conn[c].pending + InFlight(c)

\* C3 amended: every signal broadcast while a connection is registered
\* reaches it exactly once as long as its receiver holds no more than
\* Capacity unreceived signals; a receiver that fell further behind has lost
\* signals and got none twice; a connection that is not subscribed holds none.
C3_ExactlyOnceWithinCapacity ==
    \A c \in Conns :
        /\ (Registered(c) /\ ~Lagged(conn[c])) =>
              conn[c].owed = conn[c].pending + InFlight(c)
        /\ (Registered(c) /\ Lagged(conn[c])) =>
              conn[c].owed >= conn[c].pending + InFlight(c)
        /\ ~Subscribed(c) => conn[c].pending = 0

C3_Witness ==
    /\ Registered(1) /\ Registered(2)
    /\ conn[1].owed = 2 /\ conn[1].pending = 1 /\ conn[1].st = "send"
    /\ conn[2].owed = 1 /\ conn[2].pending = 1

\* C4: a signal broadcast to no receiver is dropped: while it is the last
\* broadcast, no connection has a signal waiting or in flight, and a
\* registered connection has been sent none; and a connection never gets
\* more signals than were broadcast since it subscribed.
C4_NoReplay ==
    \A c \in Conns :
        /\ lastSend = "err" => (conn[c].pending = 0 /\ conn[c].st # "send")
        /\ (lastSend = "err" /\ Registered(c)) => conn[c].owed = 0
        /\ Registered(c) => conn[c].pending + InFlight(c) <= conn[c].owed

C4_Witness ==
    /\ lastSend = "err"
    /\ \E c \in Conns : Registered(c) /\ conn[c].st = "recv"

\* C5: a failed send to one connection ends that connection's send task and
\* changes nothing else: the other connections, the watch loop and the
\* result of the broadcast are as before, and the other registered
\* connections still hold every signal broadcast to them.
C5_SendFailureConfined ==
    /\ [][\A c \in Conns :
            (conn[c].st = "send" /\ conn'[c].st = "panicked") =>
                /\ \A d \in Conns \ {c} : conn'[d] = conn[d]
                /\ watcher' = watcher
                /\ lastSend' = lastSend]_vars
    /\ [](\A c, d \in Conns :
            (c # d /\ conn[c].st = "panicked" /\ Registered(d)) =>
                conn[d].owed = conn[d].pending + InFlight(d))

C5_Witness ==
    \E c, d \in Conns :
        /\ c # d
        /\ conn[c].st = "panicked"
        /\ Registered(d)
        /\ conn[d].st = "send"
        /\ conn[d].pending = 1
        /\ watcher = "running"

\* the subscription is dropped and both tasks have ended
Deregistered(c) ==
    /\ ~Subscribed(c)
    /\ conn[c].st \notin {"recv", "send", "cancelling"}
    /\ conn[c].rt \notin {"next", "cancelling"}

\* C6: once the client of a connection has disconnected or a send to it has
\* failed, the connection is eventually deregistered.
C6_NoLeak ==
    \A c \in Conns :
        (conn[c].peer = "down" \/ conn[c].st = "panicked") ~> Deregistered(c)

C6_Witness ==
    \E c \in Conns :
        /\ conn[c].peer = "down"
        /\ conn[c].h = "closed"
        /\ conn[c].st = "cancelling"

\* C7: a registered connection whose client is connected stays registered
\* unless, in that step, the client disconnects or a send to it fails.
C7_StaysRegistered ==
    [][\A c \in LagConns :
          (Registered(c) /\ conn[c].peer = "up") =>
              \/ Registered(c)'
              \/ conn'[c].peer = "down"
              \/ conn'[c].st = "panicked"]_vars

-----------------------------------------------------------------------------
(* Claims about the watch loop *)

\* C17: the watch loop never ends because of what a batch holds: after any
\* batch it is still running, and a batch of watcher errors is skipped
\* without a broadcast.
C17_LoopSurvivesBatch ==
    /\ watcher = "running"
    /\ (lastBatch # <<>> /\ ~lastBatch[1].ok) => lastSignals = 0

\* a create, a remove, a modify other than a rename, or a rename pair
Qualifying(e) == e.kind \in {"Create", "Remove", "ModifyData", "RenameBoth"}

\* C19: the watch loop broadcasts after a batch if and only if the batch
\* holds a qualifying event, and it broadcasts once at most: a batch of
\* access events and unmatched renames only gives no broadcast.
C19_BroadcastIffQualifying ==
    lastBatch # <<>> =>
        /\ lastSignals <= 1
        /\ lastSignals = 1 <=>
              /\ lastBatch[1].ok
              /\ \E i \in 1..Len(lastBatch[1].events) :
                    Qualifying(lastBatch[1].events[i])

\* C19 for the batches the loop survives
C19_SurvivedBatches ==
    (lastBatch # <<>> /\ watcher = "running") => C19_BroadcastIffQualifying

\* the other connection
Other(c) == CHOOSE d \in LagConns : d # c

\* C20: a stalled consumer does not block the fan-out: while the send task
\* of one connection is stuck in a send, a broadcast is one step that leaves
\* the watch loop running, and every other registered connection that has
\* not itself overrun the channel gets the signal; what such a connection
\* holds is all that was broadcast to it and not yet written.
C20_StalledDoesNotBlock ==
    /\ [][\A c \in LagConns :
            (conn[c].st = "send" /\ conn'[c].owed = conn[c].owed + 1) =>
                /\ watcher' = "running"
                /\ lastSend' = "ok"
                /\ conn'[c].st = "send"
                /\ (Registered(Other(c)) /\ ~Lagged(conn[Other(c)])) =>
                      /\ conn'[Other(c)].owed = conn[Other(c)].owed + 1
                      /\ conn'[Other(c)].pending = conn[Other(c)].pending + 1
                      /\ conn'[Other(c)].st = conn[Other(c)].st]_vars
    /\ [](\A c \in LagConns :
            (conn[c].st = "send" /\ Registered(Other(c))
                                 /\ ~Lagged(conn[Other(c)])) =>
                conn[Other(c)].owed
                    = conn[Other(c)].pending + InFlight(Other(c)))

C20_Witness ==
    /\ conn[1].st = "send"
    /\ conn[1].pending = Capacity
    /\ Registered(2)
    /\ conn[2].st = "send"
    /\ conn[2].pending = 0
    /\ conn[2].owed = 1

-----------------------------------------------------------------------------
(* Claims about the messages on the sockets *)

\* a step in which an inbound message arrives or is read
InboundStep(c) == wire'[c].inbox # wire[c].inbox /\ conn'[c].h = conn[c].h

\* C22: the server writes only messages with an empty payload, one for each
\* reload signal the connection's receiver returned; a message from a client
\* causes no write to any socket and no broadcast, and it leaves every
\* connection, its tasks and its receiver as they were.
C22_OnlyReloadMessages ==
    /\ [](\A c \in WsConns :
            /\ \A m \in wire[c].out : m.type = "Text" /\ m.payload = <<>>
            /\ wire[c].put <= wire[c].got
            /\ wire[c].got <= wire[c].put + 1
            /\ Registered(c) => wire[c].got = wire[c].put + InFlight(c))
    /\ [][\A c \in WsConns :
            InboundStep(c) =>
                /\ conn' = conn
                /\ lastSend' = lastSend
                /\ \A d \in WsConns :
                      /\ wire'[d].put = wire[d].put
                      /\ wire'[d].got = wire[d].got
                      /\ wire'[d].out = wire[d].out]_vars

C22_Witness ==
    /\ wire[1].heard
    /\ wire[1].inbox = 0
    /\ Registered(1) /\ conn[1].rt = "next"
    /\ wire[1].got = 2 /\ wire[1].put = 2
    /\ wire[1].out = {ReloadMessage}
    /\ Registered(2)
    /\ wire[2].put = 1

====
